---- MODULE Spec2Model ----
(***************************************************************************)
(* ViralGenix (src/app.py): the users/contents tables of viralgenix.db,    *)
(* the per-browser st.session_state, and the handlers of the Streamlit     *)
(* script: register, login, logout and content generation.                 *)
(*                                                                         *)
(* Several browser sessions run the same script against the one SQLite     *)
(* file.  A run of the script is one step, except the registration, which  *)
(* is split before its INSERT: that is where two sessions can race for a   *)
(* username.  SQLite serialises writers, so one INSERT with its commit is  *)
(* one step.                                                               *)
(***************************************************************************)
EXTENDS Integers, Sequences, FiniteSets, TLC

VARIABLES
    bcrypt_truncates, \* the installed bcrypt: TRUE it cuts a password at 72 bytes, FALSE it raises
    users,            \* table users: set of rows [id, username, password]
    contents,         \* table contents: sequence of rows, in rowid order
    now,              \* CURRENT_TIMESTAMP, in whole seconds
    session_state,    \* st.session_state of each session
    pc,               \* where each session's script run stands
    reg,              \* locals of the last registration run: new_username, new_password, hashed_password
    gen,              \* the last generation run: did the call for the article fail, was the script asked for
    msg,              \* the message the last run of the session put on the page
    history           \* the history_df the page of the session shows

vars == <<bcrypt_truncates, users, contents, now, session_state, pc, reg, gen, msg, history>>

----------------------------------------------------------------------------
(* Bounds of the model *)

MaxContents == 2      \* rows the contents table may reach
MaxClock == 1         \* seconds the clock may advance

Sessions == {"s1", "s2"}

(* What a user can type.  A password is the pair of its first 72 bytes and  *)
(* whatever follows them: "s" is a short password, "L" a full 72-byte      *)
(* block, "x" and "y" two different continuations of it.                   *)
Usernames == {"", "alice", "bob"}
Passwords ==
    { [first72 |-> "", rest |-> ""],
      [first72 |-> "s", rest |-> ""],
      [first72 |-> "L", rest |-> "x"],
      [first72 |-> "L", rest |-> "y"] }
GoodUsernames == {"alice", "bob"}
GoodPasswords == {[first72 |-> "s", rest |-> ""]}
Temas == {"t1", "t2"}
\* what bcrypt.gensalt() draws; checkpw reads the salt back from the stored
\* hash, so its value decides nothing here and one stands for all
Salts == {"salt1"}

(* A text is a sequence of words. *)
AiTexts == { <<"texto">>, <<"ERRO_IA:", "texto">> }

----------------------------------------------------------------------------
(* Messages of the page *)

MsgNone == "none"
MsgRegistered == "Usuario registrado! Agora voce pode fazer login."
MsgDuplicate == "Esse nome de usuario ja existe."
MsgFillAll == "Por favor, preencha todos os campos."
MsgInvalid == "Usuario ou senha invalidos."
MsgNoTema == "Por favor, insira um tema."
MsgValueError == "ValueError: password cannot be longer than 72 bytes"

ErrorContent == <<"Erro", "ao", "gerar", "conteudo.">>
RoteiroPlaceholder == <<"Nao", "foi", "possivel", "gerar", "o", "roteiro">>
ErrorMarker == "ERRO_IA:"

----------------------------------------------------------------------------
(* bcrypt *)

NoHash == [salt |-> "", digest |-> ""]

TooLong(password) == password.rest # ""

\* bcrypt.hashpw(password, salt): the salt and the digest of the first 72
\* bytes; a bcrypt that does not truncate raises ValueError instead
hashpw(password, salt) ==
    IF TooLong(password) /\ ~bcrypt_truncates
    THEN [raised |-> TRUE, hash |-> NoHash]
    ELSE [raised |-> FALSE, hash |-> [salt |-> salt, digest |-> password.first72]]

\* bcrypt.checkpw(password, hashed): hash again with the stored salt, compare
checkpw(password, hashed) ==
    LET again == hashpw(password, hashed.salt)
    IN  [raised |-> again.raised, match |-> ~again.raised /\ again.hash = hashed]

----------------------------------------------------------------------------
(* The tables *)

MaxOf(S) == CHOOSE m \in S : \A x \in S : x <= m

\* INTEGER PRIMARY KEY: one more than the largest rowid of the table
NextUserId == IF users = {} THEN 1 ELSE MaxOf({r.id : r \in users}) + 1
NextContentId == Len(contents) + 1

\* username TEXT UNIQUE: the INSERT raises IntegrityError on a second row
UniqueViolation_NoConstraint(rows, username) == FALSE
UniqueViolation(rows, username) == \E r \in rows : r.username = username

\* fetchone() of a SELECT that matched nothing
None == [id |-> 0, username |-> "", password |-> NoHash]

\* SELECT id, password FROM users WHERE username=? ; fetchone()
fetchone_AnyRow(rows, username) ==
    IF rows = {} THEN None ELSE CHOOSE r \in rows : TRUE
fetchone(rows, username) ==
    IF \E r \in rows : r.username = username
    THEN CHOOSE r \in rows : r.username = username
    ELSE None

\* user_data[0]
SelectedId_OffByOne(user_data) == user_data.id + 1
SelectedId(user_data) == user_data.id

\* "ERRO_IA:" in artigo_gerado
Contains(word, text) == \E i \in 1..Len(text) : text[i] = word

\* SELECT tema, created_at FROM contents WHERE user_id = ? ORDER BY created_at
\* DESC: every order of the owner's rows that is descending in created_at (SQL
\* leaves the order of rows with equal created_at open)
OwnerRows(rows, user_id) == {i \in 1..Len(rows) : rows[i].user_id = user_id}
Orders(I) ==
    {f \in [1..Cardinality(I) -> I] : \A a, b \in 1..Cardinality(I) : a # b => f[a] # f[b]}
Listings(rows, user_id) ==
    LET I == OwnerRows(rows, user_id)
        sorted == {f \in Orders(I) : \A a, b \in 1..Cardinality(I) :
                       a < b => rows[f[a]].created_at >= rows[f[b]].created_at}
    IN  {[k \in 1..Cardinality(I) |->
             [tema |-> rows[f[k]].tema, created_at |-> rows[f[k]].created_at]] : f \in sorted}

----------------------------------------------------------------------------
(* The session *)

\* st.session_state after login_page ran on an empty state (line 80)
Anonymous == [logged_in |-> FALSE]

LoggedIn(s) == session_state[s].logged_in

\* lines 96-98
Authenticated(username, user_id) ==
    [logged_in |-> TRUE, username |-> username, user_id |-> user_id]

\* line 135 and the rerun after it: every key deleted, logged_in set anew
ClearSession_FlagOnly(ss) == [ss EXCEPT !.logged_in = FALSE]
ClearSession(ss) == Anonymous

\* the user_id the INSERT into contents is given (line 155)
OwnerOf_FirstUser(ss) == 1
OwnerOf(ss) == ss.user_id

\* reg[s].free notes whether the username had no row when the form was
\* submitted; no handler reads it
NoPassword == [first72 |-> "", rest |-> ""]
NoReg == [new_username |-> "", new_password |-> NoPassword,
          hashed_password |-> NoHash, free |-> FALSE]
NoGen == [artigo_failed |-> FALSE, roteiro_called |-> FALSE]

----------------------------------------------------------------------------
Init ==
    /\ bcrypt_truncates \in BOOLEAN
    /\ users = {}
    /\ contents = <<>>
    /\ now = 0
    /\ session_state = [s \in Sessions |-> Anonymous]
    /\ pc = [s \in Sessions |-> "idle"]
    /\ reg = [s \in Sessions |-> NoReg]
    /\ gen = [s \in Sessions |-> NoGen]
    /\ msg = [s \in Sessions |-> MsgNone]
    /\ history = [s \in Sessions |-> <<>>]

\* The wall clock passes a second boundary.
Tick ==
    /\ now < MaxClock
    /\ now' = now + 1
    /\ UNCHANGED <<bcrypt_truncates, users, contents, session_state, pc, reg, gen, msg, history>>

----------------------------------------------------------------------------
(* Registrar (lines 101-117) *)

\* The form is submitted: the fields are checked and the password hashed.
RegisterSubmit(s, new_username, new_password, salt) ==
    /\ pc[s] = "idle"
    /\ ~LoggedIn(s)
    /\ LET hashed == hashpw(new_password, salt) IN
       IF new_username = "" \/ new_password.first72 = ""
       THEN /\ msg' = [msg EXCEPT ![s] = MsgFillAll]
            /\ reg' = [reg EXCEPT ![s] = NoReg]
            /\ pc' = pc
       ELSE IF hashed.raised
       THEN /\ msg' = [msg EXCEPT ![s] = MsgValueError]
            /\ reg' = [reg EXCEPT ![s] = NoReg]
            /\ pc' = pc
       ELSE /\ msg' = [msg EXCEPT ![s] = MsgNone]
            /\ reg' = [reg EXCEPT ![s] =
                          [new_username |-> new_username,
                           new_password |-> new_password,
                           hashed_password |-> hashed.hash,
                           free |-> ~UniqueViolation(users, new_username)]]
            /\ pc' = [pc EXCEPT ![s] = "insert_user"]
    /\ UNCHANGED <<bcrypt_truncates, users, contents, now, session_state, gen, history>>

\* whether the INSERT of the pending registration raises IntegrityError
InsertConflict_CheckThenAct(rows, r) == ~r.free
InsertConflict(rows, r) == UniqueViolation(rows, r.new_username)

\* INSERT INTO users, commit, and the message.
RegisterInsert(s) ==
    /\ pc[s] = "insert_user"
    /\ IF InsertConflict(users, reg[s])
       THEN /\ users' = users
            /\ msg' = [msg EXCEPT ![s] = MsgDuplicate]
       ELSE /\ users' = users \cup
                  {[id |-> NextUserId,
                    username |-> reg[s].new_username,
                    password |-> reg[s].hashed_password]}
            /\ msg' = [msg EXCEPT ![s] = MsgRegistered]
    /\ pc' = [pc EXCEPT ![s] = "idle"]
    /\ reg' = [reg EXCEPT ![s].hashed_password = NoHash]
    /\ UNCHANGED <<bcrypt_truncates, contents, now, session_state, gen, history>>

----------------------------------------------------------------------------
(* Login (lines 84-100) *)

\* line 95: "ok", "invalid", or "raise" when checkpw raises
LoginOutcome_UserOnly(user_data, password) ==
    IF user_data = None THEN "invalid" ELSE "ok"
LoginOutcome(user_data, password) ==
    IF user_data = None THEN "invalid"
    ELSE LET c == checkpw(password, user_data.password)
         IN  IF c.raised THEN "raise" ELSE IF c.match THEN "ok" ELSE "invalid"

\* lines 95-100: the keys of a login that passed; nothing on one that did not
SessionAfterLogin_NameFirst(ss, outcome, username, user_id) ==
    IF outcome = "ok" THEN Authenticated(username, user_id)
    ELSE ("username" :> username) @@ ss
SessionAfterLogin(ss, outcome, username, user_id) ==
    IF outcome = "ok" THEN Authenticated(username, user_id) ELSE ss

Login(s, username, password) ==
    /\ pc[s] = "idle"
    /\ ~LoggedIn(s)
    /\ LET user_data == fetchone(users, username)
           outcome == LoginOutcome(user_data, password)
       IN  /\ session_state' = [session_state EXCEPT ![s] =
                   SessionAfterLogin(session_state[s], outcome, username, SelectedId(user_data))]
           /\ IF outcome = "ok"
              THEN /\ msg' = [msg EXCEPT ![s] = MsgNone]
                   /\ \E h \in Listings(contents, SelectedId(user_data)) :
                          history' = [history EXCEPT ![s] = h]
              ELSE /\ msg' = [msg EXCEPT ![s] =
                                 IF outcome = "raise" THEN MsgValueError ELSE MsgInvalid]
                   /\ history' = history
    /\ reg' = [reg EXCEPT ![s] = NoReg]
    /\ UNCHANGED <<bcrypt_truncates, users, contents, now, pc, gen>>

----------------------------------------------------------------------------
(* Sair (lines 134-136) *)

Logout(s) ==
    /\ pc[s] = "idle"
    /\ LoggedIn(s)
    /\ session_state' = [session_state EXCEPT ![s] = ClearSession(session_state[s])]
    /\ msg' = [msg EXCEPT ![s] = MsgNone]
    /\ history' = [history EXCEPT ![s] = <<>>]
    /\ gen' = [gen EXCEPT ![s] = NoGen]
    /\ UNCHANGED <<bcrypt_truncates, users, contents, now, pc, reg>>

----------------------------------------------------------------------------
(* Gerar Conteudo (lines 141-161) *)

\* what the AI service does with one call: it answers with a text, or fails
AiResponses ==
    {[failed |-> FALSE, text |-> t] : t \in AiTexts} \cup {[failed |-> TRUE, text |-> <<>>]}
GoodResponses == {[failed |-> FALSE, text |-> <<"texto">>]}

\* ViralContentGenerator.generate_content
generate_content(response) ==
    IF response.failed THEN ErrorContent ELSE response.text

\* line 147: whether the run goes on to ask for the script
ArtigoOk(artigo_gerado) == ~Contains(ErrorMarker, artigo_gerado)

\* The button with an empty tema.
GenerateNoTema(s) ==
    /\ pc[s] = "idle"
    /\ LoggedIn(s)
    /\ msg' = [msg EXCEPT ![s] = MsgNoTema]
    /\ UNCHANGED <<bcrypt_truncates, users, contents, now, session_state, pc, reg, gen, history>>

\* The button with a tema.  The run touches the session's own state and the
\* one INSERT only: the call for the article, the call for the script or the
\* placeholder, the INSERT, last_generated, and the page of the rerun with
\* its history.  response1 and response2 are what the AI service does with
\* the first and with the second call, if the run makes them.
Generate(s, tema, response1, response2) ==
    /\ pc[s] = "idle"
    /\ LoggedIn(s)
    /\ tema # ""
    /\ Len(contents) < MaxContents
    /\ LET artigo_gerado == generate_content(response1)
           roteiro_gerado == IF ArtigoOk(artigo_gerado)
                             THEN generate_content(response2)
                             ELSE RoteiroPlaceholder
       IN  /\ contents' = Append(contents,
                             [id |-> NextContentId,
                              user_id |-> OwnerOf(session_state[s]),
                              tema |-> tema,
                              artigo |-> artigo_gerado,
                              roteiro |-> roteiro_gerado,
                              legendas |-> "",
                              created_at |-> now])
           /\ session_state' = [session_state EXCEPT ![s] =
                                   ("last_generated" :>
                                        [artigo |-> artigo_gerado, roteiro |-> roteiro_gerado])
                                   @@ session_state[s]]
           /\ gen' = [gen EXCEPT ![s] =
                         [artigo_failed |-> response1.failed,
                          roteiro_called |-> ArtigoOk(artigo_gerado)]]
    /\ \E h \in Listings(contents', session_state[s].user_id) :
           history' = [history EXCEPT ![s] = h]
    /\ msg' = [msg EXCEPT ![s] = MsgNone]
    /\ UNCHANGED <<bcrypt_truncates, users, now, pc, reg>>

----------------------------------------------------------------------------
(* The specifications.  The program is the same in all of them; they      *)
(* differ in what the users type and in what the AI service answers.      *)

\* Registration and login, with every kind of username and password.
NextAuth ==
    \/ \E s \in Sessions, u \in Usernames, p \in Passwords, salt \in Salts :
           RegisterSubmit(s, u, p, salt)
    \/ \E s \in Sessions : RegisterInsert(s)
    \/ \E s \in Sessions, u \in Usernames, p \in Passwords : Login(s, u, p)
    \/ \E s \in Sessions : Logout(s)

SpecAuth == Init /\ [][NextAuth]_vars

\* No password of the specifications below is longer than 72 bytes, so both
\* builds of bcrypt behave alike in them; they start from the truncating one.
InitTruncating == Init /\ bcrypt_truncates

\* The whole application, with well-formed credentials and an AI service
\* that answers.
Next ==
    \/ Tick
    \/ \E s \in Sessions, u \in GoodUsernames, p \in GoodPasswords, salt \in Salts :
           RegisterSubmit(s, u, p, salt)
    \/ \E s \in Sessions : RegisterInsert(s)
    \/ \E s \in Sessions, u \in GoodUsernames, p \in GoodPasswords : Login(s, u, p)
    \/ \E s \in Sessions : Logout(s)
    \/ \E s \in Sessions : GenerateNoTema(s)
    \/ \E s \in Sessions, r1, r2 \in GoodResponses : Generate(s, "t1", r1, r2)

Spec == InitTruncating /\ [][Next]_vars

\* The same, with two different temas to tell the rows of the history apart.
NextList ==
    \/ Tick
    \/ \E s \in Sessions, u \in GoodUsernames, p \in GoodPasswords, salt \in Salts :
           RegisterSubmit(s, u, p, salt)
    \/ \E s \in Sessions : RegisterInsert(s)
    \/ \E s \in Sessions, u \in GoodUsernames, p \in GoodPasswords : Login(s, u, p)
    \/ \E s \in Sessions : Logout(s)
    \/ \E s \in Sessions : GenerateNoTema(s)
    \/ \E s \in Sessions, t \in Temas, r1, r2 \in GoodResponses : Generate(s, t, r1, r2)

SpecList == InitTruncating /\ [][NextList]_vars

\* The whole application used from one browser session, with an AI service
\* that may fail or answer anything.
NextAi ==
    \/ Tick
    \/ \E u \in {"alice"}, p \in GoodPasswords, salt \in Salts :
           RegisterSubmit("s1", u, p, salt)
    \/ RegisterInsert("s1")
    \/ \E u \in {"alice"}, p \in GoodPasswords : Login("s1", u, p)
    \/ Logout("s1")
    \/ GenerateNoTema("s1")
    \/ \E r1, r2 \in AiResponses : Generate("s1", "t1", r1, r2)

SpecAi == InitTruncating /\ [][NextAi]_vars

----------------------------------------------------------------------------
(* What the claims speak of, read off the tables and the session directly *)

Registered(username) == \E r \in users : r.username = username
RowOf(username) == CHOOSE r \in users : r.username = username
UniqueUsernames == \A r1, r2 \in users : r1.username = r2.username => r1 = r2
HasIdentity(s) ==
    {"username", "user_id"} \cap DOMAIN session_state[s] # {}
LastRow(rows) == rows[Len(rows)]
Shown(row) == [tema |-> row.tema, created_at |-> row.created_at]

----------------------------------------------------------------------------
(* C1 *)

\* C1, as stated: for a username that has a row, a registration with any
\* password goes on to the INSERT, the INSERT answers "Esse nome de usuario
\* ja existe." and the users table stays as it is; no two rows share a
\* username.
C1_AnyPasswordDuplicate ==
    /\ [][\A s \in Sessions :
            /\ \A u \in Usernames, p \in Passwords, salt \in Salts :
                   (RegisterSubmit(s, u, p, salt) /\ Registered(u))
                       => (pc'[s] = "insert_user" /\ users' = users)
            /\ (RegisterInsert(s) /\ Registered(reg[s].new_username))
                   => (msg'[s] = MsgDuplicate /\ users' = users)]_vars
    /\ []UniqueUsernames

\* C1, amended: for a username that has a row, every registration leaves the
\* users table as it is; with a non-empty password that bcrypt hashes, it
\* goes on to the INSERT, and the INSERT answers "Esse nome de usuario ja
\* existe."; an empty password is turned away before the table is touched,
\* and so is a password over 72 bytes under a bcrypt that raises.  No two
\* rows share a username.
C1_DuplicateRejected ==
    /\ [][\A s \in Sessions :
            /\ \A u \in Usernames, p \in Passwords, salt \in Salts :
                   (RegisterSubmit(s, u, p, salt) /\ Registered(u))
                       => /\ users' = users
                          /\ (p.first72 # "" /\ (bcrypt_truncates \/ p.rest = ""))
                                 => pc'[s] = "insert_user"
                          /\ p.first72 = "" => (pc'[s] = "idle" /\ msg'[s] = MsgFillAll)
            /\ (RegisterInsert(s) /\ Registered(reg[s].new_username))
                   => (msg'[s] = MsgDuplicate /\ users' = users)]_vars
    /\ []UniqueUsernames

\* A registration for a username that had a row when the form was submitted
\* was answered with the duplicate message.
C1_Witness ==
    \E s \in Sessions :
        /\ msg[s] = MsgDuplicate
        /\ ~reg[s].free
        /\ Registered(reg[s].new_username)

----------------------------------------------------------------------------
(* C2 *)

\* C2: after register(u, p) created an account, a login with u and p is
\* accepted and sets user_id to the id of that account, and a login with u
\* and any other password is not accepted.
C2_OnlyRegisteredPasswordVerifies ==
    [][\A t \in Sessions :
          (msg[t] = MsgRegistered /\ Registered(reg[t].new_username)) =>
              \A s \in Sessions, q \in Passwords :
                  Login(s, reg[t].new_username, q) =>
                      IF q = reg[t].new_password
                      THEN /\ LoggedIn(s)'
                           /\ session_state'[s].user_id = RowOf(reg[t].new_username).id
                      ELSE ~LoggedIn(s)']_vars

----------------------------------------------------------------------------
(* C3 *)

\* C3: a login with a username that has no row is turned away with
\* "Usuario ou senha invalidos." and leaves the session as it was; a session
\* that is logged in carries the username and the id of one row of users.
C3_NoLoginWithoutAccount ==
    /\ [][\A s \in Sessions, u \in Usernames, p \in Passwords :
            (Login(s, u, p) /\ ~Registered(u))
                => /\ session_state' = session_state
                   /\ msg'[s] = MsgInvalid]_vars
    /\ [](\A s \in Sessions :
            LoggedIn(s) => \E r \in users :
                /\ r.username = session_state[s].username
                /\ r.id = session_state[s].user_id)

\* A login was turned away while the users table had no row at all.
C3_Witness ==
    \E s \in Sessions : msg[s] = MsgInvalid /\ users = {} /\ ~LoggedIn(s)

----------------------------------------------------------------------------
(* C4 *)

\* C4: a session becomes logged in only by a login step with the username of
\* a row and a password that checkpw accepts for that row; a registration
\* step leaves the session not logged in; a session showing the message of a
\* registration or of a failed login is not logged in and holds no username
\* and no user_id.
C4_OnlyLoginAuthenticates ==
    /\ [][\A s \in Sessions :
            /\ (~LoggedIn(s) /\ LoggedIn(s)') =>
                   \E u \in Usernames, p \in Passwords :
                       /\ Login(s, u, p)
                       /\ \E r \in users :
                              r.username = u /\ checkpw(p, r.password).match
            /\ (RegisterInsert(s)
                  \/ \E u \in Usernames, p \in Passwords, salt \in Salts :
                         RegisterSubmit(s, u, p, salt))
                   => ~LoggedIn(s)']_vars
    /\ [](\A s \in Sessions :
            msg[s] \in {MsgRegistered, MsgDuplicate, MsgFillAll, MsgInvalid, MsgValueError}
                => (~LoggedIn(s) /\ ~HasIdentity(s)))

\* One session has just registered, another has just failed to log in while
\* accounts exist, and neither is logged in.
C4_Witness ==
    \E s, t \in Sessions :
        /\ msg[s] = MsgRegistered /\ ~LoggedIn(s)
        /\ msg[t] = MsgInvalid /\ ~LoggedIn(t)
        /\ users # {}

----------------------------------------------------------------------------
(* C5 *)

\* C5: the contents table changes only by the generation step of a logged-in
\* session, which appends one row whose user_id is that session's user_id;
\* for a session that is not logged in no generation step is enabled.
C5_GatedScopedWrites ==
    /\ [][contents' # contents =>
            \E s \in Sessions, r1, r2 \in AiResponses, t \in Temas :
                /\ LoggedIn(s)
                /\ Generate(s, t, r1, r2)
                /\ Len(contents') = Len(contents) + 1
                /\ SubSeq(contents', 1, Len(contents)) = contents
                /\ LastRow(contents').user_id = session_state[s].user_id]_vars
    /\ [](\A s \in Sessions :
            ~LoggedIn(s) =>
                /\ ~ENABLED GenerateNoTema(s)
                /\ \A r1, r2 \in AiResponses, t \in Temas : ~ENABLED Generate(s, t, r1, r2))

\* The second account is logged in and the newest row is its own.
C5_Witness ==
    \E s \in Sessions :
        /\ LoggedIn(s)
        /\ session_state[s].user_id = 2
        /\ contents # <<>>
        /\ LastRow(contents).user_id = 2
        /\ "last_generated" \in DOMAIN session_state[s]

----------------------------------------------------------------------------
(* C6 *)

\* C6: a step that ends a login leaves users and contents as they are and
\* the session with the single key logged_in = False; a session that is not
\* logged in holds nothing else and shows no history; a session that has
\* just logged in holds no last_generated.
C6_LogoutClearsSession ==
    /\ [][\A s \in Sessions :
            /\ (LoggedIn(s) /\ ~LoggedIn(s)') =>
                   /\ users' = users
                   /\ contents' = contents
                   /\ session_state'[s] = Anonymous
            /\ (~LoggedIn(s) /\ LoggedIn(s)') =>
                   "last_generated" \notin DOMAIN session_state'[s]]_vars
    /\ [](\A s \in Sessions :
            ~LoggedIn(s) => (DOMAIN session_state[s] = {"logged_in"} /\ history[s] = <<>>))

\* Content was generated, its author logged out, and the other account is
\* now logged in.
C6_Witness ==
    /\ contents # <<>>
    /\ \A s \in Sessions : LoggedIn(s) =>
           \A i \in 1..Len(contents) : contents[i].user_id # session_state[s].user_id
    /\ \E s \in Sessions : LoggedIn(s)
    /\ \E s \in Sessions : ~LoggedIn(s)

----------------------------------------------------------------------------
(* C7 *)

\* C7: the history shown right after a generation starts with the row just
\* appended, has one entry for each row of the owner and none for a row of
\* another owner.
C7_NewestFirst ==
    [][\A s \in Sessions, t \in Temas, r1, r2 \in AiResponses :
          Generate(s, t, r1, r2) =>
              LET uid == session_state[s].user_id
                  own == OwnerRows(contents', uid)
              IN  /\ history'[s] # <<>>
                  /\ Head(history'[s]) = [tema |-> t, created_at |-> now]
                  /\ Len(history'[s]) = Cardinality(own)
                  /\ \A k \in 1..Len(history'[s]) :
                         \E i \in own : history'[s][k] = Shown(contents'[i])]_vars

----------------------------------------------------------------------------
(* C8 *)

\* C8: after a generation run whose call for the article failed, the script
\* was not asked for, and the row the run appended holds the error text as
\* artigo and the placeholder as roteiro.
C8_PlaceholderOnFailure ==
    \A s \in Sessions :
        (LoggedIn(s) /\ gen[s].artigo_failed) =>
            /\ ~gen[s].roteiro_called
            /\ session_state[s].last_generated.artigo = ErrorContent
            /\ session_state[s].last_generated.roteiro = RoteiroPlaceholder
            /\ \E i \in 1..Len(contents) :
                   /\ contents[i].user_id = session_state[s].user_id
                   /\ contents[i].artigo = ErrorContent
                   /\ contents[i].roteiro = RoteiroPlaceholder

----------------------------------------------------------------------------
(* C9 *)

\* C9: an INSERT for a username that has a row adds nothing and answers with
\* the duplicate message, also when the form was submitted while the
\* username was free; an INSERT for a free username adds exactly its row; so
\* no two rows share a username, and no two sessions are both told that they
\* registered the same username.
C9_OneWinner ==
    /\ [][\A s \in Sessions : RegisterInsert(s) =>
            IF Registered(reg[s].new_username)
            THEN users' = users /\ msg'[s] = MsgDuplicate
            ELSE /\ msg'[s] = MsgRegistered
                 /\ Cardinality(users') = Cardinality(users) + 1
                 /\ users \subseteq users'
                 /\ \A r \in users' \ users :
                        /\ r.username = reg[s].new_username
                        /\ r.password = reg[s].hashed_password]_vars
    /\ [](/\ UniqueUsernames
          /\ \A s, t \in Sessions :
                 (s # t /\ msg[s] = MsgRegistered /\ msg[t] = MsgRegistered)
                     => reg[s].new_username # reg[t].new_username)

\* Two sessions submitted the same username while it was free; one was told
\* it registered, the other that the username exists.
C9_Witness ==
    \E s, t \in Sessions :
        /\ s # t
        /\ reg[s].new_username = reg[t].new_username
        /\ reg[s].free /\ reg[t].free
        /\ msg[s] = MsgRegistered
        /\ msg[t] = MsgDuplicate

----------------------------------------------------------------------------
(* C10 *)

\* C10: the user_id of every row of contents is the id of a row of users,
\* and a step never removes a row of users nor changes one.
C10_OwnerExists ==
    /\ [](\A i \in 1..Len(contents) : \E r \in users : r.id = contents[i].user_id)
    /\ [][users \subseteq users']_vars

\* Rows of two different owners are in the table.
C10_Witness ==
    \E i, j \in 1..Len(contents) : contents[i].user_id # contents[j].user_id

====
